---------------------------- MODULE Spec2Model ----------------------------
(***************************************************************************)
(* A model of the indexing and retrieval core of the search engine:        *)
(*   indexer.py       tokenize / stem / build_index / save / load          *)
(*   query_engine.py  _ensure_loaded / parse_query / _parse_boolean /      *)
(*                    score_simple / score_phrase / score_boolean / search *)
(*                                                                         *)
(* Strings are sequences of one-character strings, so that the analyzer    *)
(* (lowercasing, [a-z0-9]+ extraction, stopword removal, stemming) is      *)
(* computed character by character as the code computes it.  Python dicts  *)
(* are association lists (sequences of [k, v] records) because the code's  *)
(* result order depends on dict insertion order.  None is the empty tuple  *)
(* and a value x that may be None is the one-element tuple <<x>>.          *)
(***************************************************************************)
EXTENDS Integers, Sequences, FiniteSets, TLC

(***************************************************************************)
(* Characters and strings                                                  *)
(***************************************************************************)
UpperChars ==
  <<"A","B","C","D","E","F","G","H","I","J","K","L","M",
    "N","O","P","Q","R","S","T","U","V","W","X","Y","Z">>

LowerLetters ==
  <<"a","b","c","d","e","f","g","h","i","j","k","l","m",
    "n","o","p","q","r","s","t","u","v","w","x","y","z">>

Digits == {"0","1","2","3","4","5","6","7","8","9"}

\* the character class [a-z0-9] of tokenize's regular expression
AlnumLower == {LowerLetters[i] : i \in 1..26} \cup Digits

\* str.lower() on one character
LowerChar(c) ==
  IF \E i \in 1..26 : UpperChars[i] = c
  THEN LowerLetters[CHOOSE i \in 1..26 : UpperChars[i] = c]
  ELSE c

\* str.lower()
lower(s) == [i \in 1..Len(s) |-> LowerChar(s[i])]

\* str.endswith(suffix)
endswith(w, suffix) ==
  /\ Len(w) >= Len(suffix)
  /\ SubSeq(w, Len(w) - Len(suffix) + 1, Len(w)) = suffix

\* the slice word[:-n], n >= 1 (empty when n >= len(word))
ChopRight(w, n) == IF n >= Len(w) THEN <<>> ELSE SubSeq(w, 1, Len(w) - n)

\* " ".join(words)
RECURSIVE JoinSpace(_)
JoinSpace(ws) ==
  IF Len(ws) = 0 THEN <<>>
  ELSE IF Len(ws) = 1 THEN ws[1]
  ELSE ws[1] \o <<" ">> \o JoinSpace(Tail(ws))

(***************************************************************************)
(* indexer.py: stopwords and the simplified Porter stemmer                 *)
(***************************************************************************)
STOPWORDS ==
  {
    <<"a">>, <<"a","b","o","u","t">>, <<"a","b","o","v","e">>,
    <<"a","c","c","o","r","d","i","n","g">>, <<"a","f","t","e","r">>, <<"a","g","a","i","n">>,
    <<"a","g","a","i","n","s","t">>, <<"a","l","l">>, <<"a","l","s","o">>,
    <<"a","l","t","h","o","u","g","h">>, <<"a","m">>, <<"a","n">>, <<"a","n","d">>,
    <<"a","n","o","t","h","e","r">>, <<"a","n","y">>, <<"a","r","e">>,
    <<"a","r","e","n","'","t">>, <<"a","r","o","u","n","d">>, <<"a","s">>, <<"a","t">>,
    <<"b","a","s","e","d">>, <<"b","e">>, <<"b","e","c","a","m","e">>,
    <<"b","e","c","a","u","s","e">>, <<"b","e","e","n">>, <<"b","e","f","o","r","e">>,
    <<"b","e","i","n","g">>, <<"b","e","l","o","w">>, <<"b","e","t","w","e","e","n">>,
    <<"b","o","t","h">>, <<"b","u","t">>, <<"b","y">>, <<"c","a","l","l","e","d">>,
    <<"c","a","n">>, <<"c","a","n","'","t">>, <<"c","a","n","n","o","t">>,
    <<"c","o","u","l","d">>, <<"c","o","u","l","d","n","'","t">>, <<"d">>, <<"d","i","d">>,
    <<"d","i","d","n","'","t">>, <<"d","o">>, <<"d","o","e","s">>,
    <<"d","o","e","s","n","'","t">>, <<"d","o","i","n","g">>, <<"d","o","n">>,
    <<"d","o","n","'","t">>, <<"d","o","w","n">>, <<"d","u","r","i","n","g">>,
    <<"e","a","c","h">>, <<"e","v","e","n">>, <<"e","v","e","r","y">>, <<"f","e","w">>,
    <<"f","i","r","s","t">>, <<"f","o","r">>, <<"f","r","o","m">>,
    <<"f","u","r","t","h","e","r">>, <<"h","a","d">>, <<"h","a","d","n","'","t">>,
    <<"h","a","s">>, <<"h","a","s","n","'","t">>, <<"h","a","v","e">>,
    <<"h","a","v","e","n","'","t">>, <<"h","a","v","i","n","g">>, <<"h","e">>, <<"h","e","r">>,
    <<"h","e","r","e">>, <<"h","e","r","s">>, <<"h","e","r","s","e","l","f">>, <<"h","i","m">>,
    <<"h","i","m","s","e","l","f">>, <<"h","i","s">>, <<"h","o","w">>,
    <<"h","o","w","e","v","e","r">>, <<"i">>, <<"i","f">>, <<"i","n">>,
    <<"i","n","c","l","u","d","i","n","g">>, <<"i","n","t","o">>, <<"i","s">>,
    <<"i","s","n","'","t">>, <<"i","t">>, <<"i","t","'","s">>, <<"i","t","s">>,
    <<"i","t","s","e","l","f">>, <<"j","u","s","t">>, <<"k","n","o","w","n">>,
    <<"l","a","s","t">>, <<"l","i","k","e">>, <<"l","l">>, <<"m">>, <<"m","a">>,
    <<"m","a","n","y">>, <<"m","a","y">>, <<"m","e">>, <<"m","i","g","h","t","n">>,
    <<"m","i","g","h","t","n","'","t">>, <<"m","o","r","e">>, <<"m","o","s","t">>,
    <<"m","u","c","h">>, <<"m","u","s","t","n">>, <<"m","u","s","t","n","'","t">>, <<"m","y">>,
    <<"m","y","s","e","l","f">>, <<"n","e","e","d","n">>, <<"n","e","e","d","n","'","t">>,
    <<"n","e","w">>, <<"n","o">>, <<"n","o","r">>, <<"n","o","t">>, <<"n","o","w">>, <<"o">>,
    <<"o","f">>, <<"o","f","f">>, <<"o","f","t","e","n">>, <<"o","n">>, <<"o","n","c","e">>,
    <<"o","n","e">>, <<"o","n","l","y">>, <<"o","r">>, <<"o","t","h","e","r">>,
    <<"o","u","r">>, <<"o","u","r","s">>, <<"o","u","r","s","e","l","v","e","s">>,
    <<"o","u","t">>, <<"o","v","e","r">>, <<"o","w","n">>, <<"r","e">>, <<"s">>,
    <<"s","a","m","e">>, <<"s","e","v","e","r","a","l">>, <<"s","h","a","n">>,
    <<"s","h","a","n","'","t">>, <<"s","h","e">>, <<"s","h","e","'","s">>,
    <<"s","h","o","u","l","d">>, <<"s","h","o","u","l","d","'","v","e">>,
    <<"s","h","o","u","l","d","n">>, <<"s","h","o","u","l","d","n","'","t">>,
    <<"s","i","n","c","e">>, <<"s","o">>, <<"s","o","m","e">>, <<"s","t","i","l","l">>,
    <<"s","u","c","h">>, <<"t">>, <<"t","h","a","n">>, <<"t","h","a","t">>,
    <<"t","h","a","t","'","l","l">>, <<"t","h","e">>, <<"t","h","e","i","r">>,
    <<"t","h","e","i","r","s">>, <<"t","h","e","m">>,
    <<"t","h","e","m","s","e","l","v","e","s">>, <<"t","h","e","n">>, <<"t","h","e","r","e">>,
    <<"t","h","e","s","e">>, <<"t","h","e","y">>, <<"t","h","i","s">>, <<"t","h","o","s","e">>,
    <<"t","h","o","u","g","h">>, <<"t","h","r","o","u","g","h">>, <<"t","o">>, <<"t","o","o">>,
    <<"t","w","o">>, <<"u","n","d","e","r">>, <<"u","n","t","i","l">>, <<"u","p">>,
    <<"u","s","e">>, <<"u","s","e","d">>, <<"u","s","i","n","g">>,
    <<"v","a","r","i","o","u","s">>, <<"v","e">>, <<"v","e","r","y">>, <<"w","a","s">>,
    <<"w","a","s","n">>, <<"w","a","s","n","'","t">>, <<"w","e">>, <<"w","e","l","l">>,
    <<"w","e","r","e">>, <<"w","e","r","e","n">>, <<"w","e","r","e","n","'","t">>,
    <<"w","h","a","t">>, <<"w","h","e","n">>, <<"w","h","e","r","e">>, <<"w","h","i","c","h">>,
    <<"w","h","i","l","e">>, <<"w","h","o">>, <<"w","h","o","m">>, <<"w","h","y">>,
    <<"w","i","l","l">>, <<"w","i","t","h">>, <<"w","i","t","h","i","n">>, <<"w","o","n">>,
    <<"w","o","n","'","t">>, <<"w","o","u","l","d">>, <<"w","o","u","l","d","n">>,
    <<"w","o","u","l","d","n","'","t">>, <<"y">>, <<"y","o","u">>, <<"y","o","u","'","d">>,
    <<"y","o","u","'","l","l">>, <<"y","o","u","'","r","e">>, <<"y","o","u","'","v","e">>,
    <<"y","o","u","r">>, <<"y","o","u","r","s">>, <<"y","o","u","r","s","e","l","f">>,
    <<"y","o","u","r","s","e","l","v","e","s">>
  }

Vowels == {"a","e","i","o","u","y"}

\* number of vowel -> consonant transitions
_measure(word) ==
  Cardinality({i \in 2..Len(word) : word[i-1] \in Vowels /\ word[i] \notin Vowels})

_has_vowel(word) == \E i \in 1..Len(word) : word[i] \in Vowels

\* Step 1: plurals and past tenses
StemStep1(word) ==
  IF endswith(word, <<"s","s","e","s">>) THEN ChopRight(word, 2)
  ELSE IF endswith(word, <<"i","e","s">>) THEN ChopRight(word, 2)
  ELSE IF endswith(word, <<"s","s">>) THEN word
  ELSE IF /\ endswith(word, <<"s">>)
          /\ ~endswith(word, <<"u","s">>)
          /\ ~endswith(word, <<"s","s">>) THEN ChopRight(word, 1)
  ELSE word

\* the fix-up applied after "-ed" or "-ing" was stripped
StemPostFix(word) ==
  IF \/ endswith(word, <<"a","t">>)
     \/ endswith(word, <<"b","l">>)
     \/ endswith(word, <<"i","z">>) THEN word \o <<"e">>
  ELSE IF /\ Len(word) >= 2
          /\ word[Len(word)] = word[Len(word) - 1]
          /\ word[Len(word)] \notin {"l","s","z"} THEN ChopRight(word, 1)
  ELSE word

\* Step 2: "-eed" / "-ed" / "-ing"
StemStep2(word) ==
  IF endswith(word, <<"e","e","d">>)
  THEN IF _measure(ChopRight(word, 3)) > 0 THEN ChopRight(word, 1) ELSE word
  ELSE IF endswith(word, <<"e","d">>)
  THEN IF _has_vowel(ChopRight(word, 2)) THEN StemPostFix(ChopRight(word, 2)) ELSE word
  ELSE IF endswith(word, <<"i","n","g">>)
  THEN IF _has_vowel(ChopRight(word, 3)) THEN StemPostFix(ChopRight(word, 3)) ELSE word
  ELSE word

\* Step 3: "-y" -> "-i"
StemStep3(word) ==
  IF endswith(word, <<"y">>) /\ Len(word) > 2 /\ _has_vowel(ChopRight(word, 1))
  THEN ChopRight(word, 1) \o <<"i">>
  ELSE word

\* Step 4: the ordered (suffix, replacement) table
suffixes_step4 ==
  << <<  <<"a","t","i","o","n","a","l">>,     <<"a","t","e">>      >>,
     <<  <<"t","i","o","n","a","l">>,         <<"t","i","o","n">>  >>,
     <<  <<"e","n","c","i">>,                 <<"e","n","c","e">>  >>,
     <<  <<"a","n","c","i">>,                 <<"a","n","c","e">>  >>,
     <<  <<"i","z","e","r">>,                 <<"i","z","e">>      >>,
     <<  <<"a","t","o","r">>,                 <<"a","t","e">>      >>,
     <<  <<"a","l","l","i">>,                 <<"a","l">>          >>,
     <<  <<"o","u","s","l","i">>,             <<"o","u","s">>      >>,
     <<  <<"e","n","t","l","i">>,             <<"e","n","t">>      >>,
     <<  <<"e","l","i">>,                     <<"e">>              >>,
     <<  <<"f","u","l","n","e","s","s">>,     <<"f","u","l">>      >>,
     <<  <<"i","v","e","n","e","s","s">>,     <<"i","v","e">>      >>,
     <<  <<"i","z","a","t","i","o","n">>,     <<"i","z","e">>      >>,
     <<  <<"a","t","i","o","n">>,             <<"a","t","e">>      >>,
     <<  <<"n","e","s","s">>,                 <<>>                 >>,
     <<  <<"m","e","n","t">>,                 <<>>                 >> >>

Step4Applies(word, i) ==
  /\ endswith(word, suffixes_step4[i][1])
  /\ _measure(ChopRight(word, Len(suffixes_step4[i][1]))) > 0

StemStep4(word) ==
  IF \E i \in 1..Len(suffixes_step4) : Step4Applies(word, i)
  THEN LET i == CHOOSE j \in 1..Len(suffixes_step4) :
                  /\ Step4Applies(word, j)
                  /\ \A k \in 1..(j-1) : ~Step4Applies(word, k)
       IN  ChopRight(word, Len(suffixes_step4[i][1])) \o suffixes_step4[i][2]
  ELSE word

\* Step 5: final cleanup
StemStep5(word) ==
  LET w1 == IF endswith(word, <<"e">>) /\ _measure(ChopRight(word, 1)) > 1
            THEN ChopRight(word, 1) ELSE word
  IN  IF endswith(w1, <<"l","l">>) /\ _measure(ChopRight(w1, 1)) > 1
      THEN ChopRight(w1, 1) ELSE w1

stem(word) ==
  IF Len(word) < 3 THEN word
  ELSE StemStep5(StemStep4(StemStep3(StemStep2(StemStep1(word)))))

(***************************************************************************)
(* indexer.py: tokenize                                                    *)
(***************************************************************************)
\* re.findall(r"[a-z0-9]+", text): the maximal alphanumeric runs, in order.
\* cur is the run being read, acc the runs already closed.
RECURSIVE FindAllAlnum(_, _, _, _)
FindAllAlnum(text, i, cur, acc) ==
  IF i > Len(text)
  THEN IF cur = <<>> THEN acc ELSE Append(acc, cur)
  ELSE IF text[i] \in AlnumLower
       THEN FindAllAlnum(text, i + 1, Append(cur, text[i]), acc)
       ELSE FindAllAlnum(text, i + 1, <<>>,
                         IF cur = <<>> THEN acc ELSE Append(acc, cur))

findall_alnum(text) == FindAllAlnum(text, 1, <<>>, <<>>)

\* [t for t in tokens if t not in STOPWORDS and len(t) > 1]
RECURSIVE DropStopwords(_)
DropStopwords(tokens) ==
  IF tokens = <<>> THEN <<>>
  ELSE IF Head(tokens) \notin STOPWORDS /\ Len(Head(tokens)) > 1
       THEN <<Head(tokens)>> \o DropStopwords(Tail(tokens))
       ELSE DropStopwords(Tail(tokens))

tokenize(text) ==
  LET kept == DropStopwords(findall_alnum(lower(text)))
  IN  [i \in 1..Len(kept) |-> stem(kept[i])]

(***************************************************************************)
(* Python values                                                           *)
(***************************************************************************)
None == <<>>

\* a dict in insertion order: a sequence of [k |-> key, v |-> value]
DictHas(d, key) == \E i \in 1..Len(d) : d[i].k = key

DictPos(d, key) == CHOOSE i \in 1..Len(d) : d[i].k = key

DictGet(d, key) == d[DictPos(d, key)].v

\* d[key] = value: an existing key keeps its place, a new key goes last
DictSet(d, key, value) ==
  IF DictHas(d, key)
  THEN [d EXCEPT ![DictPos(d, key)] = [k |-> key, v |-> value]]
  ELSE Append(d, [k |-> key, v |-> value])

DictKeys(d) == {d[i].k : i \in 1..Len(d)}

\* str(n) for an integer n >= 0
DigitChars == <<"0","1","2","3","4","5","6","7","8","9">>

RECURSIVE str(_)
str(n) ==
  IF n < 10 THEN <<DigitChars[n + 1]>>
  ELSE str(n \div 10) \o <<DigitChars[(n % 10) + 1]>>

\* round(num / den) to the nearest integer, halves to the even one, as
\* Python's round() does
RoundHalfEven(num, den) ==
  LET q == num \div den
      r == num % den
  IN  IF 2 * r < den THEN q
      ELSE IF 2 * r > den THEN q + 1
      ELSE IF q % 2 = 0 THEN q ELSE q + 1

(***************************************************************************)
(* indexer.py: build_index                                                 *)
(*                                                                         *)
(* A page is [has, id, title, text]: has is the set of keys the JSON       *)
(* object carries; page[key] raises KeyError for a key outside it.         *)
(***************************************************************************)
\* lines 395-397: term -> [pos0, pos1, ...], terms in order of first occurrence
RECURSIVE TermPositions(_, _, _)
TermPositions(tokens, pos, term_positions) ==
  IF pos > Len(tokens) THEN term_positions
  ELSE LET token == tokens[pos]
           old   == IF DictHas(term_positions, token)
                    THEN DictGet(term_positions, token) ELSE <<>>
       IN  TermPositions(tokens, pos + 1,
                         DictSet(term_positions, token, Append(old, pos - 1)))

\* lines 401-408: one (term, positions) pair merged into the global index
MergeTerm(index, doc_id, term, positions) ==
  LET entry   == IF DictHas(index, term) THEN DictGet(index, term)
                 ELSE [doc_freq |-> 0, postings |-> <<>>]
      posting == [term_freq |-> Len(positions), positions |-> positions]
  IN  DictSet(index, term,
              [doc_freq |-> entry.doc_freq + 1,
               postings |-> DictSet(entry.postings, doc_id, posting)])

\* lines 400-408: the merge loop over term_positions.items()
RECURSIVE MergeTerms(_, _, _, _)
MergeTerms(index, doc_id, term_positions, i) ==
  IF i > Len(term_positions) THEN index
  ELSE MergeTerms(MergeTerm(index, doc_id, term_positions[i].k, term_positions[i].v),
                  doc_id, term_positions, i + 1)

\* the keys the loop body reads: page["id"], page["text"], page['title']
RequiredKeys == {"id", "text", "title"}

PageRaises(page) == ~(RequiredKeys \subseteq page.has)

\* lines 392-408, given the page's doc_id and tokens
IndexTokens(st, doc_id, tokens) ==
  [index       |-> MergeTerms(st.index, doc_id, TermPositions(tokens, 1, <<>>), 1),
   doc_lengths |-> DictSet(st.doc_lengths, doc_id, Len(tokens))]

\* lines 389-412: the loop body for one page that carries every key it reads
IndexPage(st, page) == IndexTokens(st, str(page.id), tokenize(page.text))

RECURSIVE SumValues(_)
SumValues(d) == IF d = <<>> THEN 0 ELSE Head(d).v + SumValues(Tail(d))

\* lines 414-420; avg_doc_length is kept in hundredths
FullIndex(num_docs, st) ==
  [metadata    |-> [num_docs |-> num_docs,
                    avg_doc_length |->
                      IF num_docs # 0
                      THEN RoundHalfEven(100 * SumValues(st.doc_lengths), num_docs)
                      ELSE 0],
   doc_lengths |-> st.doc_lengths,
   index       |-> st.index]

RECURSIVE BuildLoop(_, _, _)
BuildLoop(pages_, i, st) ==
  IF i > Len(pages_) THEN st
  ELSE BuildLoop(pages_, i + 1, IndexPage(st, pages_[i]))

\* build_index(pages): None when the build raises, else <<full_index>>
build_index(pages_) ==
  IF \E i \in 1..Len(pages_) : PageRaises(pages_[i]) THEN None
  ELSE <<FullIndex(Len(pages_),
                   BuildLoop(pages_, 1, [index |-> <<>>, doc_lengths |-> <<>>]))>>

(***************************************************************************)
(* query_engine.py: the query parser                                       *)
(***************************************************************************)
Whitespace == {" "}

\* str.strip()
RECURSIVE lstrip(_)
lstrip(s) == IF s # <<>> /\ Head(s) \in Whitespace THEN lstrip(Tail(s)) ELSE s

RECURSIVE rstrip(_)
rstrip(s) ==
  IF s # <<>> /\ s[Len(s)] \in Whitespace THEN rstrip(ChopRight(s, 1)) ELSE s

strip(s) == rstrip(lstrip(s))

\* str.split(): the maximal runs of non-whitespace characters
RECURSIVE Split(_, _, _, _)
Split(s, i, cur, acc) ==
  IF i > Len(s)
  THEN IF cur = <<>> THEN acc ELSE Append(acc, cur)
  ELSE IF s[i] \notin Whitespace
       THEN Split(s, i + 1, Append(cur, s[i]), acc)
       ELSE Split(s, i + 1, <<>>, IF cur = <<>> THEN acc ELSE Append(acc, cur))

split(s) == Split(s, 1, <<>>, <<>>)

\* the regular expression class \w
IsWordChar(c) ==
  \/ c \in AlnumLower
  \/ \E i \in 1..26 : UpperChars[i] = c
  \/ c = "_"

AND == <<"A","N","D">>
OR  == <<"O","R">>
NOT == <<"N","O","T">>
LPAREN == <<"(">>
RPAREN == <<")">>

\* re.search(r"\b(AND|OR|NOT)\b", raw)
HasBooleanOperator(raw) ==
  \E op \in {AND, OR, NOT} :
    \E i \in 1..Len(raw) :
      LET j == i + Len(op) - 1
      IN  /\ j <= Len(raw)
          /\ SubSeq(raw, i, j) = op
          /\ (i = 1 \/ ~IsWordChar(raw[i - 1]))
          /\ (j = Len(raw) \/ ~IsWordChar(raw[j + 1]))

\* re.match(r'^"(.+)"$', raw), for a raw without line breaks
IsPhrase(raw) == Len(raw) >= 3 /\ raw[1] = "\"" /\ raw[Len(raw)] = "\""

(***************************************************************************)
(* _parse_boolean: the recursive-descent parser.  Each function returns    *)
(* [ok, node, pos]: ok = FALSE when consume() ran past the last token      *)
(* (tokens[pos[0]] raises IndexError), node the AST, pos the pointer.      *)
(***************************************************************************)
ParseError == [ok |-> FALSE, node |-> None, pos |-> 0]

Parsed(node, pos) == [ok |-> TRUE, node |-> node, pos |-> pos]

\* peek() = tok, with peek() = None past the end
PeekIs(tokens, pos, tok) == pos < Len(tokens) /\ tokens[pos + 1] = tok

RECURSIVE parse_expr(_, _)
RECURSIVE parse_expr_loop(_, _, _)
RECURSIVE parse_factor(_, _)
RECURSIVE parse_atom(_, _)

\* line 124: left = {"op": op, "left": left, "right": right}, and loop again
ExprWithRight(tokens, op, left, right) ==
  IF ~right.ok THEN ParseError
  ELSE parse_expr_loop(tokens, [op |-> op, left |-> left, right |-> right.node],
                       right.pos)

\* lines 121-125: while peek() in ("AND", "OR"): ...; return left
parse_expr_loop(tokens, left, pos) ==
  IF PeekIs(tokens, pos, AND) \/ PeekIs(tokens, pos, OR)
  THEN ExprWithRight(tokens, tokens[pos + 1], left, parse_factor(tokens, pos + 1))
  ELSE Parsed(left, pos)

ExprFromLeft(tokens, left) ==
  IF ~left.ok THEN ParseError ELSE parse_expr_loop(tokens, left.node, left.pos)

\* lines 119-125
parse_expr(tokens, pos) == ExprFromLeft(tokens, parse_factor(tokens, pos))

\* line 131
NotNode(operand) ==
  IF ~operand.ok THEN ParseError
  ELSE Parsed([op |-> NOT, operand |-> operand.node], operand.pos)

\* lines 127-132
parse_factor(tokens, pos) ==
  IF PeekIs(tokens, pos, NOT) THEN NotNode(parse_factor(tokens, pos + 1))
  ELSE parse_atom(tokens, pos)

\* lines 138-140: eat ')' when it is there
CloseParen(tokens, inner) ==
  IF ~inner.ok THEN ParseError
  ELSE Parsed(inner.node,
              IF PeekIs(tokens, inner.pos, RPAREN) THEN inner.pos + 1 ELSE inner.pos)

\* line 144: {"term": stemmed[0] if stemmed else word.lower()}
TermNode(word, stemmed) ==
  [term |-> IF stemmed # <<>> THEN stemmed[1] ELSE lower(word)]

\* lines 134-144
parse_atom(tokens, pos) ==
  IF PeekIs(tokens, pos, LPAREN) THEN CloseParen(tokens, parse_expr(tokens, pos + 1))
  ELSE IF pos >= Len(tokens) THEN ParseError       \* consume(): IndexError
  ELSE Parsed(TermNode(tokens[pos + 1], tokenize(tokens[pos + 1])), pos + 1)

\* _parse_boolean(raw): [ok, node, pos] of the top-level parse_expr()
_parse_boolean(raw) == parse_expr(split(raw), 0)

\* the Query object: [ok, mode, terms, phrase_tokens, boolean_ast];
\* ok = FALSE when _parse_boolean raised
Query(mode, terms, phrase_tokens, boolean_ast) ==
  [ok |-> TRUE, mode |-> mode, terms |-> terms,
   phrase_tokens |-> phrase_tokens, boolean_ast |-> boolean_ast]

BooleanQuery(ast) ==
  IF ast.ok THEN Query("boolean", <<>>, None, <<ast.node>>)
  ELSE [ok |-> FALSE, mode |-> "boolean", terms |-> <<>>,
        phrase_tokens |-> None, boolean_ast |-> None]

\* lines 75-95, raw already stripped
ParseStripped(raw) ==
  IF raw = <<>> THEN Query("simple", <<>>, None, None)
  ELSE IF IsPhrase(raw)
  THEN Query("phrase", <<>>, <<tokenize(SubSeq(raw, 2, Len(raw) - 1))>>, None)
  ELSE IF HasBooleanOperator(raw) THEN BooleanQuery(_parse_boolean(raw))
  ELSE Query("simple", tokenize(raw), None, None)

parse_query(raw) == ParseStripped(strip(raw))

(***************************************************************************)
(* query_engine.py: BM25.  Scores are fixed-point integers: the IDF and    *)
(* the TF component carry four decimals each, a score eight; they are the  *)
(* float scores to within 5 * 10^-4, in the same order and with the same   *)
(* ties.  avg_doc_length is in hundredths, as build_index rounds it.       *)
(***************************************************************************)
BM25_K1_TENTHS == 15
BM25_B_HUNDREDTHS == 75

RECURSIVE Pow10(_)
Pow10(n) == IF n = 0 THEN 1 ELSE 10 * Pow10(n - 1)

\* floor(num * 10^digits / den), one decimal digit at a time
RECURSIVE FixedDiv(_, _, _)
FixedDiv(num, den, digits) ==
  IF digits = 0 THEN num \div den
  ELSE (num \div den) * Pow10(digits) + FixedDiv((num % den) * 10, den, digits - 1)

\* round(10^4 * ln((N - df + 0.5) / (df + 0.5) + 1)) at [N][df], 1 <= df <= N <= 7
IdfTable ==
  << <<2877>>,
     <<6931, 1823>>,
     <<9808, 4700, 1335>>,
     <<12040, 6931, 3567, 1054>>,
     <<13863, 8755, 5390, 2877, 870>>,
     <<15404, 10296, 6931, 4418, 2412, 741>>,
     <<16740, 11632, 8267, 5754, 3747, 2076, 645>> >>

_bm25_idf(doc_freq, num_docs) == IdfTable[num_docs][doc_freq]

\* tf*(k1+1) / (tf + k1*(1 - b + b*dl/avgdl)) with k1 = K/10, b = B/100 and
\* avgdl = A/100 is  100*A*tf*(K+10) / (1000*A*tf + K*((100-B)*A + 100*B*dl))
_bm25_tf(term_freq, doc_length, avg_doc_length) ==
  LET K == BM25_K1_TENTHS
      B == BM25_B_HUNDREDTHS
      A == avg_doc_length
  IN  FixedDiv(100 * A * term_freq * (K + 10),
               1000 * A * term_freq + K * ((100 - B) * A + 100 * B * doc_length),
               4)

\* sorted(items, key=lambda x: x[1], reverse=True): stable, so items of equal
\* score keep the order they had in items
RECURSIVE SortByScoreDesc(_)
SortByScoreDesc(items) ==
  IF items = <<>> THEN <<>>
  ELSE LET rest == SortByScoreDesc(ChopRight(items, 1))
           x    == items[Len(items)]
           n    == Cardinality({i \in 1..Len(rest) : rest[i][2] >= x[2]})
       IN  SubSeq(rest, 1, n) \o <<x>> \o SubSeq(rest, n + 1, Len(rest))

\* lines 197-199: the loop over entry["postings"].items()
RECURSIVE ScorePostings(_, _, _, _, _)
ScorePostings(index_cache, scores, idf, postings, i) ==
  IF i > Len(postings) THEN scores
  ELSE LET doc_id  == postings[i].k
           posting == postings[i].v
           tf_norm == _bm25_tf(posting.term_freq,
                               DictGet(index_cache.doc_lengths, doc_id),
                               index_cache.metadata.avg_doc_length)
           old     == IF DictHas(scores, doc_id) THEN DictGet(scores, doc_id) ELSE 0
       IN  ScorePostings(index_cache, DictSet(scores, doc_id, old + idf * tf_norm),
                         idf, postings, i + 1)

\* lines 191-199: the loop over terms
RECURSIVE ScoreTerms(_, _, _, _)
ScoreTerms(index_cache, scores, terms, i) ==
  IF i > Len(terms) THEN scores
  ELSE IF ~DictHas(index_cache.index, terms[i])
       THEN ScoreTerms(index_cache, scores, terms, i + 1)
       ELSE LET entry == DictGet(index_cache.index, terms[i])
                idf   == _bm25_idf(entry.doc_freq, index_cache.metadata.num_docs)
            IN  ScoreTerms(index_cache,
                           ScorePostings(index_cache, scores, idf, entry.postings, 1),
                           terms, i + 1)

\* scores.items() as (doc_id, score) tuples
Items(d) == [i \in 1..Len(d) |-> <<d[i].k, d[i].v>>]

score_simple(index_cache, terms) ==
  SortByScoreDesc(Items(ScoreTerms(index_cache, <<>>, terms, 1)))

(***************************************************************************)
(* query_engine.py: phrase search                                          *)
(***************************************************************************)
InList(x, list) == \E i \in 1..Len(list) : list[i] = x

\* PhraseAt without the positions: every later token merely occurs in the doc
PhraseAtAnyPosition(index_cache, phrase_tokens, doc_id, start) ==
  \A offset \in 1..(Len(phrase_tokens) - 1) :
    /\ DictHas(index_cache.index, phrase_tokens[offset + 1])
    /\ DictHas(DictGet(index_cache.index, phrase_tokens[offset + 1]).postings, doc_id)

\* lines 237-248: found, for one start position
PhraseAt(index_cache, phrase_tokens, doc_id, start) ==
  \A offset \in 1..(Len(phrase_tokens) - 1) :
    LET token == phrase_tokens[offset + 1]
    IN  /\ DictHas(index_cache.index, token)
        /\ DictHas(DictGet(index_cache.index, token).postings, doc_id)
        /\ InList(start + offset,
                  DictGet(DictGet(index_cache.index, token).postings, doc_id).positions)

\* lines 233-254: the loop over index[first]["postings"].items()
RECURSIVE PhraseMatches(_, _, _, _)
PhraseMatches(index_cache, phrase_tokens, i, matches) ==
  LET entry == DictGet(index_cache.index, phrase_tokens[1])
  IN  IF i > Len(entry.postings) THEN matches
      ELSE LET doc_id  == entry.postings[i].k
               posting == entry.postings[i].v
               found   == \E j \in 1..Len(posting.positions) :
                            PhraseAt(index_cache, phrase_tokens, doc_id,
                                     posting.positions[j])
               idf     == _bm25_idf(entry.doc_freq, index_cache.metadata.num_docs)
               tf_norm == _bm25_tf(posting.term_freq,
                                   DictGet(index_cache.doc_lengths, doc_id),
                                   index_cache.metadata.avg_doc_length)
           IN  PhraseMatches(index_cache, phrase_tokens, i + 1,
                             IF found THEN Append(matches, <<doc_id, idf * tf_norm>>)
                             ELSE matches)

score_phrase(index_cache, phrase_tokens) ==
  IF phrase_tokens = <<>> THEN <<>>
  ELSE IF ~DictHas(index_cache.index, phrase_tokens[1]) THEN <<>>
  ELSE SortByScoreDesc(PhraseMatches(index_cache, phrase_tokens, 1, <<>>))

(***************************************************************************)
(* query_engine.py: boolean search                                         *)
(***************************************************************************)
RECURSIVE _eval_boolean(_, _)
_eval_boolean(index_cache, node) ==
  IF "term" \in DOMAIN node
  THEN IF DictHas(index_cache.index, node.term)
       THEN DictKeys(DictGet(index_cache.index, node.term).postings)
       ELSE {}
  ELSE IF node.op = NOT
  THEN DictKeys(index_cache.doc_lengths) \ _eval_boolean(index_cache, node.operand)
  ELSE LET left  == _eval_boolean(index_cache, node.left)
           right == _eval_boolean(index_cache, node.right)
       IN  IF node.op = AND THEN left \cap right
           ELSE IF node.op = OR THEN left \cup right
           ELSE {}

RECURSIVE _collect_leaf_terms(_)
_collect_leaf_terms(node) ==
  IF "term" \in DOMAIN node THEN <<node.term>>
  ELSE (IF "operand" \in DOMAIN node THEN _collect_leaf_terms(node.operand) ELSE <<>>)
       \o (IF "left" \in DOMAIN node THEN _collect_leaf_terms(node.left) ELSE <<>>)
       \o (IF "right" \in DOMAIN node THEN _collect_leaf_terms(node.right) ELSE <<>>)

\* [(did, score) for did, score in all_scored if did in matching_ids]
RECURSIVE FilterIds(_, _)
FilterIds(all_scored, matching_ids) ==
  IF all_scored = <<>> THEN <<>>
  ELSE IF Head(all_scored)[1] \in matching_ids
       THEN <<Head(all_scored)>> \o FilterIds(Tail(all_scored), matching_ids)
       ELSE FilterIds(Tail(all_scored), matching_ids)

score_boolean(index_cache, ast) ==
  LET matching_ids == _eval_boolean(index_cache, ast)
  IN  IF matching_ids = {} THEN <<>>
      ELSE FilterIds(score_simple(index_cache, _collect_leaf_terms(ast)), matching_ids)

(***************************************************************************)
(* query_engine.py: generate_snippet.  Positions are Python's: 0-based.    *)
(***************************************************************************)
SNIPPET_LENGTH == 200

\* s[a:b] for 0 <= a and 0 <= b
Slice(s, a, b) ==
  SubSeq(s, a + 1, IF b < Len(s) THEN b ELSE Len(s))

\* whether sub occurs in s at position i
OccursAt(s, sub, i) ==
  i + Len(sub) <= Len(s) /\ SubSeq(s, i + 1, i + Len(sub)) = sub

\* s.find(sub): the first position of sub in s, or -1
find(s, sub) ==
  IF \E i \in 0..Len(s) : OccursAt(s, sub, i)
  THEN CHOOSE i \in 0..Len(s) :
         OccursAt(s, sub, i) /\ \A j \in 0..(i - 1) : ~OccursAt(s, sub, j)
  ELSE -1

\* s.rfind(sub): the last position of sub in s, or -1
rfind(s, sub) ==
  IF \E i \in 0..Len(s) : OccursAt(s, sub, i)
  THEN CHOOSE i \in 0..Len(s) :
         OccursAt(s, sub, i) /\ \A j \in (i + 1)..Len(s) : ~OccursAt(s, sub, j)
  ELSE -1

\* line 345: the update of best_pos for one idx
BestOf(idx, best_pos) == IF idx # -1 /\ idx < best_pos THEN idx ELSE best_pos

\* lines 342-346: best_pos after the terms from the i-th on
RECURSIVE BestPos(_, _, _, _)
BestPos(lower_text, query_terms, i, best_pos) ==
  IF i > Len(query_terms) THEN best_pos
  ELSE BestPos(lower_text, query_terms, i + 1,
               BestOf(find(lower_text, lower(query_terms[i])), best_pos))

\* lines 339-346
best_pos_of(text, query_terms) == BestPos(lower(text), query_terms, 1, Len(text))

Max(a, b) == IF a > b THEN a ELSE b
Min(a, b) == IF a < b THEN a ELSE b

\* lines 349-351
WindowStart(best_pos, max_len) == Max(0, best_pos - (max_len \div 2))
WindowEnd(text, best_pos, max_len) == Min(Len(text), best_pos + (max_len \div 2))

\* lines 355-358: drop the partial word at the left
TrimLeft(window, space) ==
  IF space # -1 THEN Slice(window, space + 1, Len(window)) ELSE window

\* lines 359-362: drop the partial word at the right
TrimRight(window, space) ==
  IF space # -1 THEN Slice(window, 0, space) ELSE window

TrimmedRight(text, end, window) ==
  IF end < Len(text) THEN TrimRight(window, rfind(window, <<" ">>)) ELSE window

\* lines 352-362: the window, trimmed to word boundaries
Window(text, start, end) ==
  TrimmedRight(text, end,
               IF start > 0
               THEN TrimLeft(Slice(text, start, end),
                             find(Slice(text, start, end), <<" ">>))
               ELSE Slice(text, start, end))

\* sorted(query_terms, key=len, reverse=True): stable, so terms of equal
\* length keep the order they had in query_terms
RECURSIVE SortByLenDesc(_)
SortByLenDesc(terms) ==
  IF terms = <<>> THEN <<>>
  ELSE LET rest == SortByLenDesc(ChopRight(terms, 1))
           x    == terms[Len(terms)]
           n    == Cardinality({i \in 1..Len(rest) : Len(rest[i]) >= Len(x)})
       IN  SubSeq(rest, 1, n) \o <<x>> \o SubSeq(rest, n + 1, Len(rest))

\* the regular expression \b at position i of s: the characters on its two
\* sides differ in being word characters (no character counts as not one)
WordBoundary(s, i) ==
  (i >= 1 /\ i <= Len(s) /\ IsWordChar(s[i]))
    # (i < Len(s) /\ IsWordChar(s[i + 1]))

\* r"\b" + re.escape(term) + r"\b", re.IGNORECASE, matching at position i
MatchesAt(s, term, i) ==
  /\ OccursAt(lower(s), lower(term), i)
  /\ WordBoundary(s, i)
  /\ WordBoundary(s, i + Len(term))

Bold == <<"*","*">>

\* line 370: pattern.sub(lambda m: f"**{m.group()}**", window), scanning the
\* matches from position i on, left to right and without overlap
RECURSIVE SubBold(_, _, _)
SubBold(s, term, i) ==
  IF i >= Len(s) THEN Slice(s, i, Len(s))
  ELSE IF MatchesAt(s, term, i)
       THEN Bold \o Slice(s, i, i + Len(term)) \o Bold
            \o SubBold(s, term, i + Len(term))
       ELSE <<s[i + 1]>> \o SubBold(s, term, i + 1)

\* lines 366-370: the loop over the sorted terms
RECURSIVE HighlightTerms(_, _, _)
HighlightTerms(window, terms, i) ==
  IF i > Len(terms) THEN window
  ELSE IF Len(terms[i]) < 2 THEN HighlightTerms(window, terms, i + 1)
  ELSE HighlightTerms(SubBold(window, terms[i], 0), terms, i + 1)

Highlight(window, query_terms) ==
  HighlightTerms(window, SortByLenDesc(query_terms), 1)

Ellipsis == <<".",".",".">>

\* lines 373-376
WithEllipsis(text, start, end, window) ==
  (IF start > 0 THEN Ellipsis ELSE <<>>)
    \o window
    \o (IF end < Len(text) THEN Ellipsis ELSE <<>>)

\* lines 349-378, best_pos known
SnippetAt(text, query_terms, max_len, best_pos) ==
  WithEllipsis(text, WindowStart(best_pos, max_len),
               WindowEnd(text, best_pos, max_len),
               Highlight(Window(text, WindowStart(best_pos, max_len),
                                WindowEnd(text, best_pos, max_len)),
                         query_terms))

generate_snippet(text, query_terms, max_len) ==
  SnippetAt(text, query_terms, max_len, best_pos_of(text, query_terms))

(***************************************************************************)
(* query_engine.py: search, after _ensure_loaded()                         *)
(***************************************************************************)
\* lines 405-413: route the parsed query to its scorer; None when the
\* parser raised, else <<the scored list>>
Route(index_cache, query) ==
  IF ~query.ok THEN None
  ELSE IF query.mode = "phrase"
  THEN <<score_phrase(index_cache, query.phrase_tokens[1])>>
  ELSE IF query.mode = "boolean"
  THEN <<score_boolean(index_cache, query.boolean_ast[1])>>
  ELSE <<score_simple(index_cache, query.terms)>>

\* lines 402-413
Scored(index_cache, raw) == Route(index_cache, parse_query(raw))

\* the slice list[:k]
SliceTo(list, k) ==
  IF k >= 0 THEN SubSeq(list, 1, IF k < Len(list) THEN k ELSE Len(list))
  ELSE SubSeq(list, 1, Len(list) + k)

Unknown == <<"U","n","k","n","o","w","n">>

\* lines 421-431: the result dict of rank i; page is _pages_by_id.get(doc_id, {})
\* as None or <<page>>
ResultDict(i, doc_id, score, page, original_words) ==
  [rank    |-> i,
   doc_id  |-> doc_id,
   title   |-> IF page # None /\ "title" \in page[1].has THEN page[1].title
               ELSE Unknown,
   score   |-> RoundHalfEven(score, Pow10(4)),               \* round(score, 4)
   snippet |-> generate_snippet(IF page # None /\ "text" \in page[1].has
                                THEN page[1].text ELSE <<>>,
                                original_words, SNIPPET_LENGTH)]

PageGet(pages_by_id, doc_id) ==
  IF DictHas(pages_by_id, doc_id) THEN <<DictGet(pages_by_id, doc_id)>> ELSE None

\* lines 419-432: one result dict per (doc_id, score) of the slice top
Results(pages_by_id, top, original_words) ==
  [i \in 1..Len(top) |->
     ResultDict(i, top[i][1], top[i][2], PageGet(pages_by_id, top[i][1]),
                original_words)]

\* lines 417-434: original_words = re.findall(r"[a-z0-9]+", raw_query.lower())
ResultList(pages_by_id, scored_list, k, raw) ==
  Results(pages_by_id, SliceTo(scored_list, k), findall_alnum(lower(raw)))

\* line 40: {str(p["id"]): p for p in _pages_cache}
RECURSIVE PagesById(_, _, _)
PagesById(pages_, i, acc) ==
  IF i > Len(pages_) THEN acc
  ELSE PagesById(pages_, i + 1, DictSet(acc, str(pages_[i].id), pages_[i]))

(***************************************************************************)
(* Inputs: documents and queries                                           *)
(***************************************************************************)
MaxDocs == 2          \* documents of a corpus that is searched
MaxBuildDocs == 3     \* documents of a list given to the builder
MaxQueryTokens == 3   \* whitespace-separated tokens of a raw query
MaxTopK == 1          \* top_k ranges over -MaxTopK..MaxTopK and the default
NumThreads == 2       \* execution contexts calling search concurrently
TOP_K == 5

W_cats == <<"c","a","t","s">>
W_Cat  == <<"C","a","t">>
W_cat  == <<"c","a","t">>
W_dog  == <<"d","o","g">>
W_run  == <<"r","u","n">>
W_the  == <<"t","h","e">>
W_running == <<"r","u","n","n","i","n","g">>

Texts ==
  { JoinSpace(<<W_the>>),
    JoinSpace(<<W_dog>>) \o <<".">>,
    JoinSpace(<<W_the, W_Cat>>),
    JoinSpace(<<W_cats, W_running>>) }

Title == <<"D","o","c">>

Page(id, text) == [has |-> RequiredKeys, id |-> id, title |-> Title, text |-> text]

\* a page without the key `missing` (the absent field holds a placeholder)
PageWithout(missing, id, text) ==
  [has   |-> RequiredKeys \ {missing},
   id    |-> IF missing = "id" THEN 0 ELSE id,
   title |-> IF missing = "title" THEN <<>> ELSE Title,
   text  |-> IF missing = "text" THEN <<>> ELSE text]

WellFormedPages(ids) == {Page(id, text) : id \in ids, text \in Texts}

MalformedPages ==
  {PageWithout(missing, 0, JoinSpace(<<W_dog>>)) : missing \in RequiredKeys}

SeqsUpTo(S, n) == UNION {[1..m -> S] : m \in 0..n}

\* what the builder may be given: any list, ids repeated or fields missing
BuildInputs == SeqsUpTo(WellFormedPages(0..1) \cup MalformedPages, MaxBuildDocs)

\* what is searched: a list of well-formed pages with distinct ids (section 6)
Corpora ==
  {c \in SeqsUpTo(WellFormedPages(0..(MaxDocs - 1)), MaxDocs) :
     \A i, j \in 1..Len(c) : i # j => c[i].id # c[j].id}

QueryTokens == {AND, OR, NOT, LPAREN, RPAREN, W_cats, W_dog}
QueryWords == {W_cats, W_dog, W_the, W_run}

Quoted(s) == <<"\"">> \o s \o <<"\"">>

\* raw queries: token sequences joined by spaces, and quoted phrases
Queries ==
  {JoinSpace(ts) : ts \in SeqsUpTo(QueryTokens, MaxQueryTokens)}
  \cup {JoinSpace(ts) : ts \in SeqsUpTo(QueryWords, 2)}
  \cup {Quoted(JoinSpace(ts)) : ts \in SeqsUpTo(QueryWords, 2)}
  \cup {<<" ">>}

TopKs == (-MaxTopK..MaxTopK) \cup {TOP_K}

(***************************************************************************)
(* State                                                                   *)
(***************************************************************************)
VARIABLES
  crawled_data,    \* crawled_data.json: the list of pages
  index_file,      \* index.json: None until save_index wrote it, then <<full_index>>
  builder,         \* the indexer process: [pc, i, st, full_index]
  _index_cache,    \* query_engine module globals: None or <<value>>
  _pages_cache,
  _pages_by_id,
  loads,           \* how many times line 37 (load_index) has run
  pc,              \* per thread: its place in search()
  raw_query,       \* per thread: the arguments of its call of search
  top_k,           \*   (top_k: 0 until line 420 reads it)
  scored,          \* per thread: the scorer's list of <<doc_id, score>>
  results,         \* per thread: None, or <<the list search returned>>
  exc,             \* per thread: the exception that ended its call, or ""
  call             \* a direct call of tokenize or generate_snippet: its
                   \* arguments, its place and its locals

vars == <<crawled_data, index_file, builder, _index_cache, _pages_cache,
          _pages_by_id, loads, pc, raw_query, top_k, scored, results, exc, call>>

engine_vars == <<_index_cache, _pages_cache, _pages_by_id, loads>>
thread_vars == <<pc, raw_query, top_k, scored, results, exc>>
program_vars == <<crawled_data, index_file, builder, engine_vars, thread_vars>>

EmptyBuild == [index |-> <<>>, doc_lengths |-> <<>>]

\* the indexer process when it is not part of the run
BuilderOff == [pc |-> "off", i |-> 0, st |-> EmptyBuild, full_index |-> None]

ThreadsIdle(n) ==
  /\ pc = [t \in 1..n |-> "idle"]
  /\ raw_query = [t \in 1..n |-> <<>>]
  /\ top_k = [t \in 1..n |-> 0]
  /\ scored = [t \in 1..n |-> <<>>]
  /\ results = [t \in 1..n |-> None]
  /\ exc = [t \in 1..n |-> ""]

\* no direct call is part of the run
NoCall == [fn |-> "none"]

EngineUnloaded ==
  /\ _index_cache = None
  /\ _pages_cache = None
  /\ _pages_by_id = None
  /\ loads = 0

(***************************************************************************)
(* indexer.py __main__: build_index over crawled_data, then save_index     *)
(***************************************************************************)
\* lines 447-454: load the pages; an empty list is not indexed
MainStart ==
  /\ builder.pc = "main"
  /\ builder' = [builder EXCEPT !.pc = IF crawled_data = <<>> THEN "no_pages"
                                       ELSE "loop",
                                !.i = 1]
  /\ UNCHANGED <<call, crawled_data, index_file, engine_vars, thread_vars>>

\* lines 389-412: one iteration of `for page in pages`
BuildPage ==
  /\ builder.pc = "loop"
  /\ builder.i <= Len(crawled_data)
  /\ LET page == crawled_data[builder.i]
     IN  builder' = IF PageRaises(page)
                    THEN [builder EXCEPT !.pc = "KeyError"]
                    ELSE [builder EXCEPT !.i = @ + 1,
                                         !.st = IndexPage(@, page)]
  /\ UNCHANGED <<call, crawled_data, index_file, engine_vars, thread_vars>>

\* lines 414-423: the metadata and the return
BuildReturn ==
  /\ builder.pc = "loop"
  /\ builder.i > Len(crawled_data)
  /\ builder' = [builder EXCEPT
                   !.pc = "built",
                   !.full_index = <<FullIndex(Len(crawled_data), builder.st)>>]
  /\ UNCHANGED <<call, crawled_data, index_file, engine_vars, thread_vars>>

\* save_index(full_index, INDEX_FILE)
SaveIndex ==
  /\ builder.pc = "built"
  /\ index_file' = builder.full_index
  /\ builder' = [builder EXCEPT !.pc = "saved"]
  /\ UNCHANGED <<call, crawled_data, engine_vars, thread_vars>>

(***************************************************************************)
(* query_engine.py: search(raw_query, top_k) on thread t                   *)
(***************************************************************************)
Raise(t, name) ==
  /\ pc' = [pc EXCEPT ![t] = "raised"]
  /\ exc' = [exc EXCEPT ![t] = name]

\* a caller enters search(q, top_k); line 401 calls _ensure_loaded().
\* top_k is first read at line 420: Materialize draws its value there.
Call(t, q) ==
  /\ pc[t] = "idle"
  /\ pc' = [pc EXCEPT ![t] = "ensure"]
  /\ raw_query' = [raw_query EXCEPT ![t] = q]
  /\ UNCHANGED <<call, crawled_data, index_file, builder, engine_vars,
                 top_k, scored, results, exc>>

\* lines 35-36: if _index_cache is not None: return
EnsureCheck(t) ==
  /\ pc[t] = "ensure"
  /\ pc' = [pc EXCEPT ![t] = IF _index_cache # None THEN "score" ELSE "load_index"]
  /\ UNCHANGED <<call, crawled_data, index_file, builder, engine_vars,
                 raw_query, top_k, scored, results, exc>>

\* line 37: _index_cache = load_index(INDEX_FILE)
LoadIndex(t) ==
  /\ pc[t] = "load_index"
  /\ IF index_file = None
     THEN /\ Raise(t, "FileNotFoundError")
          /\ UNCHANGED engine_vars
     ELSE /\ _index_cache' = index_file
          /\ loads' = loads + 1
          /\ pc' = [pc EXCEPT ![t] = "load_pages"]
          /\ UNCHANGED <<_pages_cache, _pages_by_id, exc>>
  /\ UNCHANGED <<call, crawled_data, index_file, builder, raw_query, top_k, scored, results>>

\* lines 38-39: _pages_cache = json.load(f)
LoadPages(t) ==
  /\ pc[t] = "load_pages"
  /\ _pages_cache' = <<crawled_data>>
  /\ pc' = [pc EXCEPT ![t] = "key_pages"]
  /\ UNCHANGED <<call, crawled_data, index_file, builder, _index_cache, _pages_by_id,
                 loads, raw_query, top_k, scored, results, exc>>

\* line 40: _pages_by_id = {str(p["id"]): p for p in _pages_cache}
KeyPages(t) ==
  /\ pc[t] = "key_pages"
  /\ IF \E i \in 1..Len(_pages_cache[1]) : "id" \notin _pages_cache[1][i].has
     THEN /\ Raise(t, "KeyError")
          /\ UNCHANGED _pages_by_id
     ELSE /\ _pages_by_id' = <<PagesById(_pages_cache[1], 1, <<>>)>>
          /\ pc' = [pc EXCEPT ![t] = "score"]
          /\ UNCHANGED exc
  /\ UNCHANGED <<call, crawled_data, index_file, builder, _index_cache, _pages_cache,
                 loads, raw_query, top_k, scored, results>>

\* the outcome r of lines 402-413 on thread t
Scoring(t, r) ==
  IF r = None
  THEN /\ Raise(t, "IndexError")
       /\ UNCHANGED scored
  ELSE /\ scored' = [scored EXCEPT ![t] = r[1]]
       /\ pc' = [pc EXCEPT ![t] = "results"]
       /\ UNCHANGED exc

\* lines 402-413: parse_query and the scorer it routes to.  The scorers call
\* _ensure_loaded() again; _index_cache is set by then, so it returns at once.
Score(t) ==
  /\ pc[t] = "score"
  /\ Scoring(t, Scored(_index_cache[1], raw_query[t]))
  /\ UNCHANGED <<call, crawled_data, index_file, builder, engine_vars,
                 raw_query, top_k, results>>

\* lines 417-434, for the caller's top_k = k: the result dicts of
\* scored[:top_k]; _pages_by_id.get raises AttributeError on the first one
\* when _pages_by_id is still None
Materialize(t, k) ==
  /\ pc[t] = "results"
  /\ top_k' = [top_k EXCEPT ![t] = k]
  /\ IF SliceTo(scored[t], k) # <<>> /\ _pages_by_id = None
     THEN /\ Raise(t, "AttributeError")
          /\ UNCHANGED results
     ELSE /\ results' = [results EXCEPT ![t] =
                           <<ResultList(IF _pages_by_id = None THEN <<>>
                                        ELSE _pages_by_id[1],
                                        scored[t], k, raw_query[t])>>]
          /\ pc' = [pc EXCEPT ![t] = "returned"]
          /\ UNCHANGED exc
  /\ UNCHANGED <<call, crawled_data, index_file, builder, engine_vars,
                 raw_query, scored>>

\* the call is over (it returned or raised); the thread may call again
Return(t) ==
  /\ pc[t] \in {"returned", "raised"}
  /\ pc' = [pc EXCEPT ![t] = "idle"]
  /\ raw_query' = [raw_query EXCEPT ![t] = <<>>]
  /\ top_k' = [top_k EXCEPT ![t] = 0]
  /\ scored' = [scored EXCEPT ![t] = <<>>]
  /\ results' = [results EXCEPT ![t] = None]
  /\ exc' = [exc EXCEPT ![t] = ""]
  /\ UNCHANGED <<call, crawled_data, index_file, builder, engine_vars>>

(***************************************************************************)
(* query_engine.py: a direct call generate_snippet(text, query_terms,      *)
(* max_len); call holds its arguments, its place and its locals            *)
(***************************************************************************)
SnippetCall(text, query_terms, max_len) ==
  [fn |-> "generate_snippet", pc |-> "locate", text |-> text,
   query_terms |-> query_terms, max_len |-> max_len,
   best_pos |-> 0, start |-> 0, end |-> 0, window |-> <<>>, out |-> None]

\* lines 339-346: best_pos
Locate ==
  /\ call.fn = "generate_snippet" /\ call.pc = "locate"
  /\ call' = [call EXCEPT !.pc = "window",
                          !.best_pos = best_pos_of(call.text, call.query_terms)]
  /\ UNCHANGED program_vars

\* lines 349-362: start, end and the trimmed window
CutWindow ==
  /\ call.fn = "generate_snippet" /\ call.pc = "window"
  /\ call' = [call EXCEPT
                !.pc = "highlight",
                !.start = WindowStart(call.best_pos, call.max_len),
                !.end = WindowEnd(call.text, call.best_pos, call.max_len),
                !.window = Window(call.text,
                                  WindowStart(call.best_pos, call.max_len),
                                  WindowEnd(call.text, call.best_pos, call.max_len))]
  /\ UNCHANGED program_vars

\* lines 366-370: the highlighted window, and lines 373-378: the return value
HighlightAndReturn ==
  /\ call.fn = "generate_snippet" /\ call.pc = "highlight"
  /\ call' = [call EXCEPT
                !.pc = "done",
                !.out = <<WithEllipsis(call.text, call.start, call.end,
                                       Highlight(call.window, call.query_terms))>>]
  /\ UNCHANGED program_vars

(***************************************************************************)
(* indexer.py: a direct call tokenize(text), followed by a second call on  *)
(* the first call's tokens joined by spaces                                *)
(***************************************************************************)
TokenizeCall(text) ==
  [fn |-> "tokenize", pc |-> "first", text |-> text,
   tokens |-> <<>>, again |-> <<>>]

\* tokens = tokenize(text)
Analyze ==
  /\ call.fn = "tokenize" /\ call.pc = "first"
  /\ call' = [call EXCEPT !.pc = "second", !.tokens = tokenize(call.text)]
  /\ UNCHANGED program_vars

\* again = tokenize(" ".join(tokens))
Reanalyze ==
  /\ call.fn = "tokenize" /\ call.pc = "second"
  /\ call' = [call EXCEPT !.pc = "done",
                          !.again = tokenize(JoinSpace(call.tokens))]
  /\ UNCHANGED program_vars

\* the steps of a call that take no input
Step(t) ==
  \/ EnsureCheck(t)
  \/ LoadIndex(t)
  \/ LoadPages(t)
  \/ KeyPages(t)
  \/ Score(t)
  \/ Return(t)

(***************************************************************************)
(* Specifications                                                          *)
(***************************************************************************)
\* Spec: one thread searches a corpus that was indexed and saved
Init ==
  /\ crawled_data \in Corpora
  /\ index_file = build_index(crawled_data)
  /\ builder = BuilderOff
  /\ EngineUnloaded
  /\ call = NoCall
  /\ ThreadsIdle(1)

Next ==
  \E t \in 1..1 :
    \/ \E q \in Queries : Call(t, q)
    \/ \E k \in TopKs : Materialize(t, k)
    \/ Step(t)

Spec == Init /\ [][Next]_vars

\* SpecBuild: the indexer runs over any list of pages
InitBuild ==
  /\ crawled_data \in BuildInputs
  /\ index_file = None
  /\ builder = [pc |-> "main", i |-> 0, st |-> EmptyBuild, full_index |-> None]
  /\ EngineUnloaded
  /\ call = NoCall
  /\ ThreadsIdle(0)

NextBuild == MainStart \/ BuildPage \/ BuildReturn \/ SaveIndex

SpecBuild == InitBuild /\ [][NextBuild]_vars

\* SpecLoad: several threads call search concurrently on a fresh process
LoadCorpus == <<Page(0, JoinSpace(<<W_cats, W_run>>)), Page(1, JoinSpace(<<W_the, W_Cat>>))>>

LoadQueries == {JoinSpace(<<W_cats>>), JoinSpace(<<W_dog>>)}

InitLoad ==
  /\ crawled_data = LoadCorpus
  /\ index_file = build_index(crawled_data)
  /\ builder = BuilderOff
  /\ EngineUnloaded
  /\ call = NoCall
  /\ ThreadsIdle(NumThreads)

NextLoad ==
  \E t \in 1..NumThreads :
    \/ \E q \in LoadQueries : Call(t, q)
    \/ \E k \in {1, TOP_K} : Materialize(t, k)
    \/ Step(t)

SpecLoad == InitLoad /\ [][NextLoad]_vars

\* SpecStored: one thread searches over an index.json that is the saved
\* index of LoadCorpus or that file with one of its numbers changed
WithDocFreq(ix, i, d) == [ix EXCEPT !.index[i].v.doc_freq = d]

WithTermFreq(ix, i, j, n) == [ix EXCEPT !.index[i].v.postings[j].v.term_freq = n]

WithAvgDocLength(ix, a) == [ix EXCEPT !.metadata.avg_doc_length = a]

\* the file itself (d = its doc_freq) and the files with one number changed
StoredFiles(ix) ==
  {WithDocFreq(ix, i, d) : i \in DOMAIN ix.index, d \in 1..ix.metadata.num_docs}
  \cup UNION {{WithTermFreq(ix, i, j, ix.index[i].v.postings[j].v.term_freq + 1) :
                 j \in DOMAIN ix.index[i].v.postings} : i \in DOMAIN ix.index}
  \cup {WithAvgDocLength(ix, ix.metadata.avg_doc_length + 100)}

InitStored ==
  /\ crawled_data = LoadCorpus
  /\ index_file \in {<<ix>> : ix \in StoredFiles(build_index(LoadCorpus)[1])}
  /\ builder = BuilderOff
  /\ EngineUnloaded
  /\ call = NoCall
  /\ ThreadsIdle(1)

NextStored ==
  \E t \in 1..1 :
    \/ \E q \in LoadQueries : Call(t, q)
    \/ \E k \in {1, TOP_K} : Materialize(t, k)
    \/ Step(t)

SpecStored == InitStored /\ [][NextStored]_vars

\* SpecPhrase: one thread searches quoted phrases over corpora whose texts
\* repeat a word and hold two words in either order
MaxPhraseTokens == 3  \* words of a quoted phrase

PhraseTexts ==
  { JoinSpace(<<W_cats, W_cats, W_run>>),
    JoinSpace(<<W_run, W_cats>>),
    JoinSpace(<<W_cats>>) \o <<".">> }

\* the crawler numbers its pages 0, 1, ... in the order it stored them
PhraseCorpora ==
  {[i \in 1..Len(ts) |-> Page(i - 1, ts[i])] : ts \in SeqsUpTo(PhraseTexts, MaxDocs)}

PhraseQueries ==
  {Quoted(JoinSpace(ts)) :
     ts \in SeqsUpTo({W_cats, W_run, W_the}, MaxPhraseTokens) \ {<<>>}}

InitPhrase ==
  /\ crawled_data \in PhraseCorpora
  /\ index_file = build_index(crawled_data)
  /\ builder = BuilderOff
  /\ EngineUnloaded
  /\ call = NoCall
  /\ ThreadsIdle(1)

NextPhrase ==
  \E t \in 1..1 :
    \/ \E q \in PhraseQueries : Call(t, q)
    \/ \E k \in {1, TOP_K} : Materialize(t, k)
    \/ Step(t)

SpecPhrase == InitPhrase /\ [][NextPhrase]_vars

\* SpecSnippet: generate_snippet is called on a text, a list of query words
\* and a max_len
MaxSnippetTerms == 2  \* query words of a generate_snippet call

SnippetTexts ==
  { JoinSpace(<<W_the, W_Cat>>),
    JoinSpace(<<W_cats, W_run, W_the, W_cat>>),
    JoinSpace(<<W_dog>>) \o <<".">> }

SnippetTerms == SeqsUpTo({W_cat, W_cats, W_dog}, MaxSnippetTerms)

SnippetLengths == {4, 8, SNIPPET_LENGTH}

NoProgram ==
  /\ crawled_data = <<>>
  /\ index_file = None
  /\ builder = BuilderOff
  /\ EngineUnloaded
  /\ ThreadsIdle(0)

InitSnippet ==
  /\ NoProgram
  /\ call \in {SnippetCall(text, terms, max_len) :
                 text \in SnippetTexts, terms \in SnippetTerms,
                 max_len \in SnippetLengths}

NextSnippet == Locate \/ CutWindow \/ HighlightAndReturn

SpecSnippet == InitSnippet /\ [][NextSnippet]_vars

\* SpecAnalyze: tokenize on every text of up to MaxTextLen characters, then
\* on its own output joined by spaces
MaxTextLen == 5

AnalyzeChars == {"a", "b", "d", "e", "s", " "}

AnalyzeTexts == SeqsUpTo(AnalyzeChars, MaxTextLen)

InitAnalyze ==
  /\ NoProgram
  /\ call \in {TokenizeCall(text) : text \in AnalyzeTexts}

NextAnalyze == Analyze \/ Reanalyze

SpecAnalyze == InitAnalyze /\ [][NextAnalyze]_vars

(***************************************************************************)
(* The specification's statements, as formulas over the model              *)
(***************************************************************************)
\* the doc ids of a scored list
DocIds(scored_list) == {scored_list[i][1] : i \in DOMAIN scored_list}

\* the number a doc id (the str() of a page id) stands for
RECURSIVE DocIdNumber(_)
DocIdNumber(doc_id) ==
  IF doc_id = <<>> THEN 0
  ELSE 10 * DocIdNumber(ChopRight(doc_id, 1))
       + (CHOOSE d \in 0..9 : DigitChars[d + 1] = doc_id[Len(doc_id)])

BooleanIdsAgree(index_cache, query, scored_list) ==
  (query.ok /\ query.mode = "boolean") =>
    DocIds(scored_list) = _eval_boolean(index_cache, query.boolean_ast[1])

\* C1: for every boolean query over a built index, the doc ids score_boolean
\* returns are exactly the set evaluation of the AST (Term = posting keys,
\* Not = complement over doc_lengths, And = intersection, Or = union)
C1_BooleanIdsAreSetEvaluation ==
  \A t \in DOMAIN pc :
    pc[t] = "results" =>
      BooleanIdsAgree(_index_cache[1], parse_query(raw_query[t]), scored[t])

\* C2: a query that contains AND, OR or NOT is never fatal: _parse_boolean
\* returns an AST and search returns a list, whatever the last token is
C2_MalformedBooleanNeverRaises ==
  \A t \in DOMAIN pc :
    HasBooleanOperator(raw_query[t]) => pc[t] # "raised" /\ exc[t] = ""

\* C3: every caller that has returned from _ensure_loaded observes the
\* completed state: index cache, page list and pages-by-id all populated
C3_EnsureLoadedObservesCompletedState ==
  \A t \in DOMAIN pc :
    pc[t] \in {"score", "results"} =>
      _index_cache # None /\ _pages_cache # None /\ _pages_by_id # None

\* C4: the load body runs exactly once, by the first caller; it is never
\* executed a second time, under any interleaving of callers
C4_LoadedAtMostOnce == loads <= 1

Ordered(a, b) ==
  \/ a[2] > b[2]
  \/ a[2] = b[2] /\ DocIdNumber(a[1]) < DocIdNumber(b[1])

\* C5: the scored list of any query is ordered by score descending, and
\* documents with equal score appear in ascending doc id order
C5_OrderedByScoreThenDocId ==
  \A t \in DOMAIN pc :
    pc[t] = "results" =>
      \A i, j \in DOMAIN scored[t] : i < j => Ordered(scored[t][i], scored[t][j])

\* C6: search returns the empty list for every non-positive top_k
C6_NonPositiveTopKIsEmpty ==
  \A t \in DOMAIN pc :
    (pc[t] = "returned" /\ top_k[t] <= 0) => results[t] = <<(<<>>)>>

\* the build has returned full_index
Built == builder.pc \in {"built", "saved"}

\* C7: after build_index on any list, every term entry has
\* doc_freq = number of keys of its postings, and the postings are not empty
C7_DocFreqIsPostingCount ==
  Built =>
    \A i \in DOMAIN builder.full_index[1].index :
      LET entry == builder.full_index[1].index[i].v
      IN  entry.doc_freq = Len(entry.postings) /\ Len(entry.postings) > 0

PostingWellFormed(doc_lengths, doc_id, posting) ==
  /\ DictHas(doc_lengths, doc_id)
  /\ posting.term_freq = Len(posting.positions)
  /\ \A a, b \in DOMAIN posting.positions :
       a < b => posting.positions[a] < posting.positions[b]
  /\ \A a \in DOMAIN posting.positions :
       /\ posting.positions[a] >= 0
       /\ posting.positions[a] < DictGet(doc_lengths, doc_id)

\* C8: after build_index on any list, for every term and every doc d of its
\* postings: d is a key of doc_lengths, term_freq = number of positions,
\* positions strictly increasing and within [0, doc_lengths[d])
C8_PostingsWellFormed ==
  Built =>
    \A i \in DOMAIN builder.full_index[1].index :
      \A j \in DOMAIN builder.full_index[1].index[i].v.postings :
        PostingWellFormed(builder.full_index[1].doc_lengths,
                          builder.full_index[1].index[i].v.postings[j].k,
                          builder.full_index[1].index[i].v.postings[j].v)

DuplicateIds(pages_) ==
  \E i, j \in DOMAIN pages_ :
    /\ i < j
    /\ "id" \in pages_[i].has /\ "id" \in pages_[j].has
    /\ pages_[i].id = pages_[j].id

\* C9: build_index never returns an index for a list in which two documents
\* carry the same id
C9_DuplicateIdIsFatal == DuplicateIds(crawled_data) => ~Built

WellFormedIds(pages_) ==
  {str(pages_[i].id) : i \in {n \in DOMAIN pages_ : RequiredKeys \subseteq pages_[n].has}}

\* C10: a document lacking id or text does not abort the build: it is
\* rejected alone, and the returned index holds exactly the well-formed ones
C10_MalformedDocumentIsSkipped ==
  /\ builder.pc = "KeyError" =>
       {"id", "text"} \subseteq crawled_data[builder.i].has
  /\ Built =>
       DictKeys(builder.full_index[1].doc_lengths) = WellFormedIds(crawled_data)

\* the structural invariants of a stored index
IndexValid(ix) ==
  /\ \A i \in DOMAIN ix.index :
       /\ ix.index[i].v.doc_freq = Len(ix.index[i].v.postings)
       /\ \A j \in DOMAIN ix.index[i].v.postings :
            ix.index[i].v.postings[j].v.term_freq
              = Len(ix.index[i].v.postings[j].v.positions)
  /\ ix.metadata.avg_doc_length
       = IF ix.metadata.num_docs # 0
         THEN RoundHalfEven(100 * SumValues(ix.doc_lengths), ix.metadata.num_docs)
         ELSE 0

\* C11: load_index validates the stored index (doc_freq = posting count,
\* term_freq = position count, avg_doc_length recomputable); an index that
\* violates them is never returned to the caller or cached for queries
C11_InvalidIndexIsNeverCached ==
  _index_cache # None => IndexValid(_index_cache[1])

\* the positions of term in doc d, none when the term or the doc is absent
Positions(ix, term, d) ==
  IF DictHas(ix.index, term) /\ DictHas(DictGet(ix.index, term).postings, d)
  THEN {DictGet(DictGet(ix.index, term).postings, d).positions[n] :
          n \in DOMAIN DictGet(DictGet(ix.index, term).postings, d).positions}
  ELSE {}

\* the docs in which the tokens occur at consecutive positions
PhraseDocs(ix, toks) ==
  IF toks = <<>> THEN {}
  ELSE {d \in DictKeys(ix.doc_lengths) :
          \E p \in Positions(ix, toks[1], d) :
            \A i \in 1..(Len(toks) - 1) : (p + i) \in Positions(ix, toks[i + 1], d)}

PhraseResultRight(ix, query, scored_list) ==
  (query.ok /\ query.mode = "phrase") =>
    /\ DocIds(scored_list) = PhraseDocs(ix, query.phrase_tokens[1])
    /\ Cardinality(DocIds(scored_list)) = Len(scored_list)
    /\ (\E i \in DOMAIN query.phrase_tokens[1] :
          ~DictHas(ix.index, query.phrase_tokens[1][i])) => scored_list = <<>>

\* C12: score_phrase returns a document exactly when some position p of the
\* first token has p+i among the positions of the i-th next token, each such
\* document once, and nothing when the list is empty or a token is unknown
C12_PhraseMatchesConsecutivePositions ==
  \A t \in DOMAIN pc :
    pc[t] = "results" =>
      PhraseResultRight(_index_cache[1], parse_query(raw_query[t]), scored[t])

\* the phrase "cats run" matched one document of two, the other holding the
\* two words only in the opposite order
C12_Witness ==
  /\ pc[1] = "results"
  /\ raw_query[1] = Quoted(JoinSpace(<<W_cats, W_run>>))
  /\ Len(crawled_data) = 2
  /\ crawled_data[2].text = JoinSpace(<<W_run, W_cats>>)
  /\ Len(scored[1]) = 1

NoTermOccurs(text, query_terms) ==
  \A i \in DOMAIN query_terms : find(lower(text), lower(query_terms[i])) = -1

\* the earliest occurrence of a query word in the lowercased text, 0 if none
Anchor(text, query_terms) ==
  IF NoTermOccurs(text, query_terms) THEN 0
  ELSE CHOOSE a \in 0..Len(text) :
         /\ \E i \in DOMAIN query_terms : find(lower(text), lower(query_terms[i])) = a
         /\ \A i \in DOMAIN query_terms :
              find(lower(text), lower(query_terms[i])) \in {-1} \cup (a..Len(text))

\* C13: the window is centred on the earliest occurrence of a query word and,
\* when no query word occurs, on position 0: then start = 0,
\* end = min(|text|, max_len / 2) and the snippet has no leading ellipsis
C13_SnippetAnchoredAtStartWhenNoMatch ==
  (call.fn = "generate_snippet" /\ call.pc \in {"highlight", "done"}) =>
    /\ call.start = Max(0, Anchor(call.text, call.query_terms) - (call.max_len \div 2))
    /\ call.end = Min(Len(call.text),
                      Anchor(call.text, call.query_terms) + (call.max_len \div 2))
    /\ (call.pc = "done" /\ NoTermOccurs(call.text, call.query_terms)) =>
         ~OccursAt(call.out[1], Ellipsis, 0)

Stars(s) == Cardinality({i \in 1..Len(s) : s[i] = "*"})

\* the positions of the window where a query word of two characters or more
\* occurs as a whole word
MatchPositions(window, query_terms) ==
  {i \in 0..(Len(window) - 1) :
     \E j \in DOMAIN query_terms :
       Len(query_terms[j]) >= 2 /\ MatchesAt(window, query_terms[j], i)}

\* C14: whatever the query words (repeated, or substrings of one another), the
\* markers never nest: each matched occurrence of the window is wrapped by
\* exactly one pair of ** markers, so the snippet holds four asterisks per
\* occurrence and never four in a row
C14_HighlightNeverNests ==
  (call.fn = "generate_snippet" /\ call.pc = "done") =>
    /\ Stars(call.out[1])
         = 4 * Cardinality(MatchPositions(call.window, call.query_terms))
    /\ \A i \in 0..Len(call.out[1]) : ~OccursAt(call.out[1], Bold \o Bold, i)

\* every alphanumeric word of the lowercased raw query is a stopword
StopwordsOnly(raw) ==
  \A i \in DOMAIN findall_alnum(lower(raw)) :
    findall_alnum(lower(raw))[i] \in STOPWORDS

\* C15: for a raw query all of whose words are stopwords, search returns the
\* empty list, whichever mode the query is parsed in
C15_StopwordQueryReturnsEmpty ==
  \A t \in DOMAIN pc :
    StopwordsOnly(raw_query[t]) =>
      /\ pc[t] # "raised"
      /\ pc[t] = "returned" => results[t] = <<(<<>>)>>

\* C16: tokenize applied to its own output joined by spaces returns that
\* output, provided no token of the output is a stopword or of length <= 1
C16_TokenizeIsIdempotentOnItsOutput ==
  (call.fn = "tokenize" /\ call.pc = "done") =>
    ((\A i \in DOMAIN call.tokens :
        call.tokens[i] \notin STOPWORDS /\ Len(call.tokens[i]) > 1)
       => call.again = call.tokens)

\* the tokens of a boolean query that are words: neither operators nor
\* parentheses
IsWord(tok) == tok \notin {AND, OR, NOT, LPAREN, RPAREN}

\* the AST has a Term leaf for the word
HasLeafFor(ast, word) ==
  \E i \in DOMAIN _collect_leaf_terms(ast) :
    _collect_leaf_terms(ast)[i] = TermNode(word, tokenize(word)).term

\* C17: the boolean parser consumes its whole input: when tokens other than
\* AND / OR follow a complete expression, the AST still has a Term leaf for
\* every word of the query, nothing is silently dropped
C17_BooleanParserConsumesWholeInput ==
  \A t \in DOMAIN pc :
    (pc[t] = "results" /\ parse_query(raw_query[t]).mode = "boolean") =>
      /\ _parse_boolean(strip(raw_query[t])).pos = Len(split(raw_query[t]))
      /\ \A i \in DOMAIN split(raw_query[t]) :
           IsWord(split(raw_query[t])[i]) =>
             HasLeafFor(parse_query(raw_query[t]).boolean_ast[1],
                        split(raw_query[t])[i])

=============================================================================
